---- MODULE Spec2Model ----
(***************************************************************************)
(* A model of the PDF outline plugin: the sidebar view (PDFOutlineView),   *)
(* the outline parser (parsePDFOutline) and the plugin's file-open wiring  *)
(* (PDFOutlinePlugin).                                                     *)
(*                                                                         *)
(* Strings are sequences of one-character strings.  JavaScript objects     *)
(* whose identity matters (PDFOutlineItem, OutlineItemState and the DOM    *)
(* element each state owns) live in two stores, `heap` and `states`; an    *)
(* object is named by its index in its store.                              *)
(***************************************************************************)
EXTENDS Integers, Sequences, FiniteSets, TLC

VARIABLES
    \* ---- PDFOutlineView (types.ts 26-34) ----
    heap,             \* store of PDFOutlineItem objects
    states,           \* store of OutlineItemState objects (with their elements)
    outlineItems,     \* this.outlineItems: top-level item ids
    itemStates,       \* this.itemStates: insertion-ordered Map item -> state
    searchQuery,      \* this.searchQuery
    allExpanded,      \* this.allExpanded
    searchInputEl,    \* this.searchInputEl
    toggleAllButton,  \* this.toggleAllButton
    outlineContainer, \* this.outlineContainer
    contentEl,        \* this.contentEl: classes of its child elements
    lifecycle,        \* "constructed" | "open" | "closed" (onOpen / onClose)
    \* ---- host workspace seen by jumpToPage / navigateToPageInLeaf ----
    activeFile,       \* workspace.getActiveFile()
    pdfLeaves,        \* workspace.getLeavesOfType('pdf'): the file each leaf shows
    pdfView,          \* what the host's PDF view class offers (leaf.view)
    openTimers,       \* pages waiting in openLinkText(...).then(setTimeout(...))
    navLog,           \* what the last click did: strategies applied, warnings
    \* ---- PDFOutlinePlugin (main.ts 6-102) ----
    pluginView,       \* this.view is set
    pending,          \* updateOutlineForFile calls awaiting parsePDFOutline
    lastOpened,       \* the file of the latest file-open event
    parseFailed,      \* history: some parsePDFOutline call has thrown
    unhandled,        \* history: an error has escaped a file-open handler
    \* ---- parsePDFOutline run on its own ----
    parseIn,          \* the document handed to the parser
    parseOut,         \* what the parser returned
    \* ---- filterOutline run on its own ----
    filtered,         \* result of a filterOutline call
    \* ---- history ----
    lastOp            \* the operation that produced this state

viewVars == <<heap, states, outlineItems, itemStates, searchQuery, allExpanded,
              searchInputEl, toggleAllButton, outlineContainer, contentEl, lifecycle>>
navVars == <<activeFile, pdfLeaves, pdfView, openTimers, navLog>>
pluginVars == <<pluginView, pending, lastOpened, parseFailed, unhandled>>
parseVars == <<parseIn, parseOut>>
vars == <<viewVars, navVars, pluginVars, parseVars, filtered, lastOp>>

\* ------------------------------------------------------------------ bounds

\* Most OutlineItemState objects alive at once (stale ones included).
MaxStates == 7
\* Most PDF leaves open at once.
MaxLeaves == 2
\* Most navigations waiting for openLinkText and its timer at once.
MaxTimers == 1
\* Most updateOutlineForFile calls of one file awaiting its parse at once.
MaxPending == 2

\* ----------------------------------------------------------------- strings

Min(S) == CHOOSE x \in S : \A y \in S : x <= y
Max(S) == CHOOSE x \in S : \A y \in S : x >= y

\* String.prototype.toLowerCase on the model's alphabet.
toLowerCaseChar(c) ==
    CASE c = "A" -> "a" [] c = "B" -> "b" [] c = "U" -> "u" [] OTHER -> c

toLowerCase(s) == [i \in 1..Len(s) |-> toLowerCaseChar(s[i])]

\* String.prototype.trim: strips leading and trailing white space.
trim(s) ==
    LET ink == {i \in 1..Len(s) : s[i] # " "}
    IN IF ink = {} THEN <<>> ELSE SubSeq(s, Min(ink), Max(ink))

\* String.prototype.includes.
includes(s, q) ==
    \E i \in 0..(Len(s) - Len(q)) : SubSeq(s, i + 1, i + Len(q)) = q

\* ------------------------------------------------------- PDFOutlineItem store

\* A PDFOutlineItem value: title, page, children (nested values).
Leaf(t, p) == [title |-> t, page |-> p, children |-> <<>>]
Node(t, p, cs) == [title |-> t, page |-> p, children |-> cs]

\* Allocating the objects of a parsed outline, parents before children.  `orig`
\* is a history field: the stored-outline object a (filtered) copy stems from.
RECURSIVE LoadItems(_, _, _, _)
LoadItems(h, trees, i, ids) ==
    IF i > Len(trees) THEN [heap |-> h, ids |-> ids]
    ELSE LET id == Len(h) + 1
             h1 == Append(h, [title |-> trees[i].title, page |-> trees[i].page,
                              children |-> <<>>, orig |-> id])
             r  == LoadItems(h1, trees[i].children, 1, <<>>)
             h2 == [r.heap EXCEPT ![id].children = r.ids]
         IN LoadItems(h2, trees, i + 1, Append(ids, id))

Load(trees) == LoadItems(<<>>, trees, 1, <<>>)

\* The value of the object graph below `ids` (identities forgotten).
RECURSIVE Unload(_, _)
Unload(h, ids) ==
    [i \in 1..Len(ids) |->
        [title |-> h[ids[i]].title, page |-> h[ids[i]].page,
         children |-> Unload(h, h[ids[i]].children)]]

\* The stored outline's own objects: the prefix of the store Load made.
Originals(h) == {i \in 1..Len(h) : h[i].orig = i}

\* ------------------------------------------------------------ filterOutline

\* filterOutline(items) on view v: the view with the copies it allocated, and
\* the returned array.  A kept item is a NEW object {...item, children: ...}.
RECURSIVE filterOutline(_, _)
RECURSIVE filterEach(_, _, _, _, _)
filterEach(v, items, i, query, out) ==
    IF i > Len(items) THEN [v |-> v, out |-> out]
    ELSE LET item    == v.heap[items[i]]
             matches == includes(toLowerCase(item.title), query)
             fc      == filterOutline(v, item.children)
             copy    == [item EXCEPT !.children = fc.out]
         IN IF matches \/ Len(fc.out) > 0
            THEN filterEach([fc.v EXCEPT !.heap = Append(@, copy)], items, i + 1,
                            query, Append(out, Len(fc.v.heap) + 1))
            ELSE filterEach(fc.v, items, i + 1, query, out)

\* A faulty filterOutline, for comparison: it keeps direct matches only and never
\* looks below them.
filterOutlineNoDescend(v, items) ==
    IF trim(v.searchQuery) = <<>> THEN [v |-> v, out |-> items]
    ELSE LET q == toLowerCase(v.searchQuery)
             keep == SelectSeq(items, LAMBDA id : includes(toLowerCase(v.heap[id].title), q))
         IN [v |-> v, out |-> keep]

\* A faulty filterOutline, for comparison: the query is ignored.
filterOutlineKeepAll(v, items) == [v |-> v, out |-> items]

\* filterOutline(items)
filterOutline(v, items) ==
    IF trim(v.searchQuery) = <<>> THEN [v |-> v, out |-> items]
    ELSE filterEach(v, items, 1, toLowerCase(v.searchQuery), <<>>)

\* ------------------------------------------------- itemStates (a JS Map)

MapHas(m, k) == \E i \in 1..Len(m) : m[i].key = k
MapGet(m, k) == m[CHOOSE i \in 1..Len(m) : m[i].key = k].st
\* Map.prototype.set: a present key keeps its place, a new key goes last.
MapSet(m, k, s) ==
    IF MapHas(m, k)
    THEN [i \in 1..Len(m) |-> IF m[i].key = k THEN [key |-> k, st |-> s] ELSE m[i]]
    ELSE Append(m, [key |-> k, st |-> s])

\* ------------------------------------------------------------ the view

View ==
    [heap |-> heap, states |-> states, outlineItems |-> outlineItems,
     itemStates |-> itemStates, searchQuery |-> searchQuery,
     allExpanded |-> allExpanded, searchInputEl |-> searchInputEl,
     toggleAllButton |-> toggleAllButton, outlineContainer |-> outlineContainer,
     contentEl |-> contentEl]

SetView(v) ==
    /\ heap' = v.heap
    /\ states' = v.states
    /\ outlineItems' = v.outlineItems
    /\ itemStates' = v.itemStates
    /\ searchQuery' = v.searchQuery
    /\ allExpanded' = v.allExpanded
    /\ searchInputEl' = v.searchInputEl
    /\ toggleAllButton' = v.toggleAllButton
    /\ outlineContainer' = v.outlineContainer
    /\ contentEl' = v.contentEl

\* The fields of a freshly constructed PDFOutlineView.
NewView ==
    [heap |-> <<>>, states |-> <<>>, outlineItems |-> <<>>, itemStates |-> <<>>,
     searchQuery |-> <<>>, allExpanded |-> TRUE,
     searchInputEl |-> [isNull |-> TRUE, value |-> <<>>],
     toggleAllButton |-> [isNull |-> TRUE, textContent |-> ""],
     outlineContainer |-> [isNull |-> TRUE, kids |-> <<>>, noResults |-> FALSE],
     contentEl |-> <<>>]

hasChildren(v, item) == Len(v.heap[item].children) > 0

\* container.createDiv('tree-item'): container 0 is this.outlineContainer, any
\* other container is the 'tree-item-children' div of that state.
AppendChild(v, container, sid) ==
    IF container = 0
    THEN [v EXCEPT !.outlineContainer.kids = Append(@, sid)]
    ELSE [v EXCEPT !.states[container].kids = Append(@, sid)]

\* renderOutlineItems(container, items)
RECURSIVE renderOutlineItems(_, _, _)
RECURSIVE renderEach(_, _, _, _)
renderEach(v, container, items, i) ==
    IF i > Len(items) THEN v
    ELSE LET item == items[i]
             sid  == Len(v.states) + 1
             st   == [item |-> item, isCollapsed |-> FALSE,
                      hasContainer |-> hasChildren(v, item),
                      kids |-> <<>>, isCollapsedClass |-> FALSE]
             v1   == AppendChild([v EXCEPT !.states = Append(@, st),
                                           !.itemStates = MapSet(@, item, sid)],
                                 container, sid)
             v2   == IF hasChildren(v, item)
                     THEN renderOutlineItems(v1, sid, v.heap[item].children)
                     ELSE v1
         IN renderEach(v2, container, items, i + 1)

renderOutlineItems(v, container, items) == renderEach(v, container, items, 1)

\* A faulty toggleItem, for comparison: the check of childrenContainer is missing.
toggleItemNoGuard(v, item) ==
    IF ~MapHas(v.itemStates, item) THEN v
    ELSE LET sid == MapGet(v.itemStates, item)
         IN IF ~v.states[sid].isCollapsed
            THEN [v EXCEPT !.states[sid].isCollapsed = TRUE,
                           !.states[sid].isCollapsedClass = TRUE,
                           !.states[sid].kids = <<>>]
            ELSE LET v1 == [v EXCEPT !.states[sid].isCollapsed = FALSE,
                                     !.states[sid].isCollapsedClass = FALSE]
                     fc == filterOutline(v1, v1.heap[v1.states[sid].item].children)
                 IN renderOutlineItems(fc.v, sid, fc.out)

\* toggleItem(item)
toggleItem(v, item) ==
    IF ~MapHas(v.itemStates, item) THEN v
    ELSE LET sid == MapGet(v.itemStates, item)
         IN IF ~v.states[sid].hasContainer THEN v
            ELSE IF ~v.states[sid].isCollapsed
                 THEN [v EXCEPT !.states[sid].isCollapsed = TRUE,
                                !.states[sid].isCollapsedClass = TRUE,
                                !.states[sid].kids = <<>>]
                 ELSE LET v1 == [v EXCEPT !.states[sid].isCollapsed = FALSE,
                                          !.states[sid].isCollapsedClass = FALSE]
                          fc == filterOutline(v1, v1.heap[v1.states[sid].item].children)
                      IN renderOutlineItems(fc.v, sid, fc.out)

\* Array.from(this.itemStates.values()).filter(state => state.item.children.length > 0)
itemsWithChildren(v) ==
    SelectSeq([i \in 1..Len(v.itemStates) |-> v.itemStates[i].st],
              LAMBDA s : hasChildren(v, v.states[s].item))

\* updateToggleButtonText()
updateToggleButtonText(v) ==
    IF ~v.toggleAllButton.isNull
    THEN [v EXCEPT !.toggleAllButton.textContent =
                       IF v.allExpanded THEN "Alles einklappen" ELSE "Alles ausklappen"]
    ELSE v

\* toggleAll(): the forEach over the snapshot, reading each state as it is when
\* its turn comes.
RECURSIVE toggleAllEach(_, _, _)
toggleAllEach(v, snapshot, i) ==
    IF i > Len(snapshot) THEN v
    ELSE LET state == v.states[snapshot[i]]
         IN toggleAllEach(IF state.isCollapsed = v.allExpanded
                          THEN toggleItem(v, state.item) ELSE v,
                          snapshot, i + 1)

toggleAll(v) ==
    LET v1 == updateToggleButtonText([v EXCEPT !.allExpanded = ~@])
    IN toggleAllEach(v1, itemsWithChildren(v1), 1)

\* Objects no element of the document and no field of the view refers to any
\* more are dropped: every OutlineItemState, and every filtered copy behind the
\* stored outline's own objects.
Collect(v) ==
    [v EXCEPT !.states = <<>>,
              !.heap = SubSeq(@, 1, Cardinality(Originals(@)))]

\* renderFilteredOutline(): the loop that collapses what was just rendered.
RECURSIVE collapseEach(_, _, _)
collapseEach(v, snapshot, i) ==
    IF i > Len(snapshot) THEN v
    ELSE LET state == v.states[snapshot[i]]
         IN collapseEach(IF ~state.isCollapsed THEN toggleItem(v, state.item) ELSE v,
                         snapshot, i + 1)

\* A faulty renderFilteredOutline, for comparison: allExpanded is not applied.
renderFilteredOutlineNoCollapse(v) ==
    IF v.outlineContainer.isNull THEN v
    ELSE LET v1 == Collect([v EXCEPT !.itemStates = <<>>,
                                     !.outlineContainer.kids = <<>>,
                                     !.outlineContainer.noResults = FALSE])
             fc == filterOutline(v1, v1.outlineItems)
         IN IF Len(fc.out) = 0
            THEN [fc.v EXCEPT !.outlineContainer.noResults = TRUE]
            ELSE renderOutlineItems(fc.v, 0, fc.out)

\* renderFilteredOutline()
renderFilteredOutline(v) ==
    IF v.outlineContainer.isNull THEN v
    ELSE LET v1 == Collect([v EXCEPT !.itemStates = <<>>,
                                     !.outlineContainer.kids = <<>>,
                                     !.outlineContainer.noResults = FALSE])
             fc == filterOutline(v1, v1.outlineItems)
         IN IF Len(fc.out) = 0
            THEN [fc.v EXCEPT !.outlineContainer.noResults = TRUE]
            ELSE LET v2 == renderOutlineItems(fc.v, 0, fc.out)
                 IN IF ~v2.allExpanded
                    THEN collapseEach(v2, itemsWithChildren(v2), 1)
                    ELSE v2

\* A faulty createHeader, for comparison: the new button gets no text.
createHeaderNoText(v) ==
    [v EXCEPT !.contentEl = Append(@, "pdf-outline-header"),
              !.searchInputEl = [isNull |-> FALSE, value |-> v.searchQuery],
              !.toggleAllButton = [isNull |-> FALSE, textContent |-> ""]]

\* createHeader(container), without the listeners (they are the actions
\* SearchInput and ClickToggleAll).
createHeader(v) ==
    updateToggleButtonText(
        [v EXCEPT !.contentEl = Append(@, "pdf-outline-header"),
                  !.searchInputEl = [isNull |-> FALSE, value |-> v.searchQuery],
                  !.toggleAllButton = [isNull |-> FALSE, textContent |-> ""]])

\* A faulty displayOutline, for comparison: the empty outline gets no message of
\* its own and is rendered like any other.
displayOutlineNoEmptyState(v, outline) ==
    LET v1 == Collect([v EXCEPT !.outlineItems = outline,
                                !.itemStates = <<>>,
                                !.contentEl = <<>>,
                                !.outlineContainer.kids = <<>>,
                                !.outlineContainer.noResults = FALSE])
        v2 == createHeader(v1)
        v3 == [v2 EXCEPT !.contentEl = Append(@, "pdf-outline-content"),
                         !.outlineContainer =
                             [isNull |-> FALSE, kids |-> <<>>, noResults |-> FALSE]]
    IN renderFilteredOutline(v3)

\* displayOutline(outline), outline being objects of v.heap.  container.empty()
\* detaches the old header and outline container; the detached container, which
\* this.outlineContainer may still name, is never read again and is kept empty.
displayOutline(v, outline) ==
    LET v1 == Collect([v EXCEPT !.outlineItems = outline,
                                !.itemStates = <<>>,
                                !.contentEl = <<>>,
                                !.outlineContainer.kids = <<>>,
                                !.outlineContainer.noResults = FALSE])
    IN IF Len(outline) = 0
       THEN [v1 EXCEPT !.contentEl = Append(@, "pdf-outline-empty")]
       ELSE LET v2 == createHeader(v1)
                v3 == [v2 EXCEPT !.contentEl = Append(@, "pdf-outline-content"),
                                 !.outlineContainer =
                                     [isNull |-> FALSE, kids |-> <<>>, noResults |-> FALSE]]
            IN renderFilteredOutline(v3)

\* this.view.displayOutline(outline) with a newly parsed outline (a value):
\* its objects are new ones.
displayParsed(v, trees) ==
    LET l == Load(trees)
    IN displayOutline([v EXCEPT !.heap = l.heap], l.ids)

\* ------------------------------------------------------ what is on screen

HeaderShown(v) == \E i \in 1..Len(v.contentEl) : v.contentEl[i] = "pdf-outline-header"
ContentShown(v) == \E i \in 1..Len(v.contentEl) : v.contentEl[i] = "pdf-outline-content"

Range(s) == {s[i] : i \in 1..Len(s)}

\* The tree-item elements (named by their states) below a set of elements.
RECURSIVE Below(_, _)
Below(v, S) ==
    IF S = {} THEN {}
    ELSE S \cup Below(v, UNION {Range(v.states[s].kids) : s \in S})

\* The tree-item elements attached to the document.
Rendered(v) ==
    IF ContentShown(v) THEN Below(v, Range(v.outlineContainer.kids)) ELSE {}

\* What a list of tree-item elements shows: for each element the stored-outline
\* object its node stems from, whether it is collapsed, and what it lists.
RECURSIVE Visible(_, _)
Visible(v, kids) ==
    [i \in 1..Len(kids) |->
        [node |-> v.heap[v.states[kids[i]].item].orig,
         isCollapsed |-> v.states[kids[i]].isCollapsed,
         children |-> Visible(v, v.states[kids[i]].kids)]]

\* ------------------------------------------------------------- navigation

\* Files of the vault; "none" is the null file.
PdfFiles == {"a.pdf", "b.pdf"}
Files == PdfFiles \cup {"n.md"}
\* file.extension === 'pdf', activeFile.path.endsWith('.pdf')
IsPdf(f) == f \in PdfFiles

\* A call's trace: the strategies applied (each with leaf and page), whether the
\* warning was logged, the leaf made active, whether openLinkText was called.
NoNav == [applied |-> <<>>, warned |-> FALSE, active |-> 0, opened |-> FALSE]

Apply(log, strategy, leaf, page) ==
    [log EXCEPT !.applied = Append(@, [strategy |-> strategy, leaf |-> leaf, page |-> page])]

\* pdfLeaves.find(l => l.view?.file?.path === file.path), 0 for undefined
FindLeaf(file) ==
    IF \E i \in 1..Len(pdfLeaves) : pdfLeaves[i].file = file
    THEN Min({i \in 1..Len(pdfLeaves) : pdfLeaves[i].file = file})
    ELSE 0

\* pdfLeaves[0], 0 for undefined
FirstLeaf == IF Len(pdfLeaves) > 0 THEN 1 ELSE 0

\* A faulty navigateToPageInLeaf, for comparison: jumpToPage is probed first.
navigateSwapped(log, page, file, leaf) ==
    LET l == IF leaf = 0
             THEN (IF FindLeaf(file) # 0 THEN FindLeaf(file) ELSE FirstLeaf)
             ELSE leaf
    IN IF l = 0 THEN log
       ELSE IF pdfView.jumpToPage THEN Apply(log, "jumpToPage", l, page)
       ELSE IF pdfView.goToPage THEN Apply(log, "goToPage", l, page)
       ELSE IF pdfView.navigateToPage THEN Apply(log, "navigateToPage", l, page)
       ELSE IF pdfView.pdfViewer = "withPageNumber"
            THEN Apply(log, "currentPageNumber", l, page)
       ELSE IF pdfView.pageInput THEN Apply(log, "pageInput", l, page)
       ELSE [log EXCEPT !.warned = TRUE]

\* navigateToPageInLeaf(page, file, leaf); leaf 0 is an omitted argument.
navigateToPageInLeaf(log, page, file, leaf) ==
    LET l == IF leaf = 0
             THEN (IF FindLeaf(file) # 0 THEN FindLeaf(file) ELSE FirstLeaf)
             ELSE leaf
    IN IF l = 0 THEN log
       ELSE IF pdfView.goToPage THEN Apply(log, "goToPage", l, page)
       ELSE IF pdfView.jumpToPage THEN Apply(log, "jumpToPage", l, page)
       ELSE IF pdfView.navigateToPage THEN Apply(log, "navigateToPage", l, page)
       ELSE IF pdfView.pdfViewer = "withPageNumber"
            THEN Apply(log, "currentPageNumber", l, page)
       ELSE IF pdfView.pageInput THEN Apply(log, "pageInput", l, page)
       ELSE [log EXCEPT !.warned = TRUE]

\* jumpToPage(page): the call's trace and the timers it leaves behind.
jumpToPage(page) ==
    IF activeFile = "none" \/ ~IsPdf(activeFile)
    THEN [log |-> NoNav, timers |-> openTimers]
    ELSE LET target == IF FindLeaf(activeFile) # 0 THEN FindLeaf(activeFile) ELSE FirstLeaf
         IN IF target = 0
            THEN [log |-> [NoNav EXCEPT !.opened = TRUE],
                  timers |-> Append(openTimers, [page |-> page, file |-> activeFile,
                                                 phase |-> "opening"])]
            ELSE [log |-> navigateToPageInLeaf([NoNav EXCEPT !.active = target],
                                               page, activeFile, target),
                  timers |-> openTimers]

\* ----------------------------------------------------------------- parser

\* 'Untitled'
Untitled == <<"U", "n", "t", "i", "t", "l", "e", "d">>

NoDest == [kind |-> "none", name |-> "", ref |-> 0]
NamedDest(n) == [kind |-> "name", name |-> n, ref |-> 0]
ArrayDest(r) == [kind |-> "array", name |-> "", ref |-> r]
ObjectDest == [kind |-> "object", name |-> "", ref |-> 0]

\* A library outline item: title (<<>> is the empty string), dest, items.
Item(t, d, its) == [title |-> t, dest |-> d, items |-> its]
\* A library outline item that has no title property.
ItemWithoutTitle(d, its) == [dest |-> d, items |-> its]

Returns(x) == [throws |-> FALSE, value |-> x]
Throws(x) == [throws |-> TRUE, value |-> x]

\* A faulty resolveDestination, for comparison: no try/catch.
resolveNoCatch(doc, dest) ==
    LET d == IF dest.kind = "name" THEN doc.getDestination[dest.name] ELSE Returns(dest)
    IN IF d.throws THEN Throws(0)
       ELSE IF d.value.kind = "array"
            THEN LET pageIndex == doc.getPageIndex[d.value.ref]
                 IN IF pageIndex.throws THEN Throws(0) ELSE Returns(pageIndex.value + 1)
            ELSE Returns(1)

\* resolveDestination(doc, dest): the page, or the error that escaped.
resolveDestination(doc, dest) ==
    LET d == IF dest.kind = "name" THEN doc.getDestination[dest.name] ELSE Returns(dest)
    IN IF d.throws THEN Returns(1)
       ELSE IF d.value.kind = "array"
            THEN LET pageIndex == doc.getPageIndex[d.value.ref]
                 IN IF pageIndex.throws THEN Returns(1) ELSE Returns(pageIndex.value + 1)
            ELSE Returns(1)

\* Promise.all(promises): the promises settle in the order `order` (a
\* permutation of their indices), and each one that settles puts its outcome
\* into the result array at its own index.
RECURSIVE settle(_, _, _, _)
settle(promises, order, k, values) ==
    IF k > Len(order) THEN values
    ELSE settle(promises, order, k + 1,
                [values EXCEPT ![order[k]] = promises[order[k]]])

\* A faulty Promise.all, for comparison: outcomes are appended as they come.
PromiseAllAsSettled(promises, order) == [k \in 1..Len(order) |-> promises[order[k]]]

PromiseAll(promises, order) ==
    settle(promises, order, 1, [i \in 1..Len(promises) |-> Throws(<<>>)])

\* item.title || 'Untitled'
titleOrUntitled(item) ==
    IF "title" \in DOMAIN item /\ item.title # <<>> THEN item.title ELSE Untitled

\* convertOutlineItemAsync(item, doc); Promise.all rejects when one of the
\* promises does.  doc.completion[n] is the order in which n conversions
\* started together settle.
RECURSIVE convertOutlineItemAsync(_, _)
convertOutlineItemAsync(item, doc) ==
    LET page == IF item.dest.kind # "none"
                THEN resolveDestination(doc, item.dest) ELSE Returns(1)
        kids == IF Len(item.items) > 0
                THEN PromiseAll([i \in 1..Len(item.items) |->
                                    convertOutlineItemAsync(item.items[i], doc)],
                                doc.completion[Len(item.items)])
                ELSE <<>>
    IN IF page.throws \/ \E i \in 1..Len(kids) : kids[i].throws
       THEN Throws(<<>>)
       ELSE Returns([title |-> titleOrUntitled(item),
                     page |-> page.value,
                     children |-> [i \in 1..Len(kids) |-> kids[i].value]])

\* parsePDFOutline(file, app) on the document the file holds: the outline, or the
\* error it rethrows.  doc.loads is FALSE when loadPdfJs, readBinary,
\* getDocument or getOutline throws.
parsePDFOutline(doc) ==
    IF ~doc.loads THEN Throws(<<>>)
    ELSE IF doc.outlineIsNull \/ Len(doc.outline) = 0 THEN Returns(<<>>)
    ELSE LET items == PromiseAll([i \in 1..Len(doc.outline) |->
                                     convertOutlineItemAsync(doc.outline[i], doc)],
                                 doc.completion[Len(doc.outline)])
         IN IF \E i \in 1..Len(items) : items[i].throws
            THEN Throws(<<>>)
            ELSE Returns([i \in 1..Len(items) |-> items[i].value])

\* ------------------------------------------------------------ the inputs

\* Outlines the plugin hands to the view.
OutlineDeep ==
    << Node(<<"A", "b">>, 1, << Node(<<"b">>, 2, << Leaf(<<"a">>, 3) >>) >>),
       Leaf(<<"B">>, 2) >>
OutlineWide ==
    << Node(<<"a">>, 1, << Leaf(<<"B", "a">>, 2), Leaf(<<"b">>, 3) >>),
       Node(<<"b">>, 2, << Leaf(<<"A">>, 2) >>) >>
ViewOutlines == {<<>>, OutlineDeep, OutlineWide}

\* What the user types into the search input.
SearchInputs == {<<>>, <<" ">>, <<"a">>, <<"B">>, <<"B", "a">>}

\* `before` is set by a click on a collapse icon: what the item listed before it.
Op(name, arg, file) == [op |-> name, arg |-> arg, file |-> file, before |-> <<>>]

\* --------------------------------------------------------- view: actions

\* onOpen(): the host opens the newly constructed view.
onOpen ==
    /\ lifecycle = "constructed"
    /\ SetView(displayOutline(View, outlineItems))
    /\ lifecycle' = "open"
    /\ lastOp' = Op("onOpen", 0, "")
    /\ UNCHANGED <<navVars, pluginVars, parseVars, filtered>>

\* onClose(): the host closes the view; its elements leave the document.
onClose ==
    /\ lifecycle = "open"
    /\ itemStates' = <<>>
    /\ lifecycle' = "closed"
    /\ lastOp' = Op("onClose", 0, "")
    /\ UNCHANGED <<heap, states, outlineItems, searchQuery, allExpanded, searchInputEl,
                   toggleAllButton, outlineContainer, contentEl>>
    /\ UNCHANGED <<navVars, pluginVars, parseVars, filtered>>

\* The plugin calls this.view.displayOutline(outline) with a parsed outline.
ShowOutline(trees) ==
    /\ SetView(displayParsed(View, trees))
    /\ lastOp' = Op("displayOutline", Len(trees), "")
    /\ UNCHANGED <<lifecycle, navVars, pluginVars, parseVars, filtered>>

\* The 'input' listener of the search input (createHeader).
SearchInput(value) ==
    /\ lifecycle = "open"
    /\ HeaderShown(View)
    /\ SetView(renderFilteredOutline(
                   [View EXCEPT !.searchInputEl.value = value,
                                !.searchQuery = toLowerCase(value)]))
    /\ lastOp' = Op("input", 0, "")
    /\ UNCHANGED <<lifecycle, navVars, pluginVars, parseVars, filtered>>

\* The 'click' listener of the toggle-all button (createHeader).
ClickToggleAll ==
    /\ lifecycle = "open"
    /\ HeaderShown(View)
    /\ LET v == toggleAll(View)
       IN /\ Len(v.states) <= MaxStates
          /\ SetView(v)
    /\ lastOp' = Op("toggleAll", 0, "")
    /\ UNCHANGED <<lifecycle, navVars, pluginVars, parseVars, filtered>>

\* A click on the collapse icon of rendered element s: the icon's listener stops
\* the propagation and toggles the item it was rendered for, so the listener of
\* 'tree-item-self' does not run.
ClickCollapseIcon(s) ==
    /\ lifecycle = "open"
    /\ s \in Rendered(View)
    /\ states[s].hasContainer
    /\ LET v == toggleItem(View, states[s].item)
       IN /\ Len(v.states) <= MaxStates
          /\ SetView(v)
    /\ lastOp' = [Op("toggleItem", s, "") EXCEPT !.before = Visible(View, states[s].kids)]
    /\ UNCHANGED <<lifecycle, navVars, pluginVars, parseVars, filtered>>

\* A click on 'tree-item-self' of rendered element s outside the icon.
ClickTitle(s) ==
    /\ lifecycle = "open"
    /\ s \in Rendered(View)
    /\ LET j == jumpToPage(heap[states[s].item].page)
       IN /\ Len(j.timers) <= MaxTimers
          /\ navLog' = j.log
          /\ openTimers' = j.timers
    /\ lastOp' = Op("jumpToPage", s, "")
    /\ UNCHANGED <<viewVars, activeFile, pdfLeaves, pdfView, pluginVars, parseVars, filtered>>

\* ------------------------------------------------- the view on its own

\* A PDF view class that offers goToPage only.
GoToPageView ==
    [goToPage |-> TRUE, jumpToPage |-> FALSE, navigateToPage |-> FALSE,
     pdfViewer |-> "none", pageInput |-> FALSE]

NavIdle ==
    /\ activeFile = "a.pdf"
    /\ pdfLeaves = << [file |-> "a.pdf"] >>
    /\ pdfView = GoToPageView
    /\ openTimers = <<>>
    /\ navLog = NoNav

PluginIdle ==
    /\ pluginView = TRUE
    /\ pending = [f \in PdfFiles |-> 0]
    /\ lastOpened = "none"
    /\ parseFailed = FALSE
    /\ unhandled = FALSE

EmptyDoc ==
    [loads |-> TRUE, outlineIsNull |-> TRUE, outline |-> <<>>,
     getDestination |-> [n \in {"x"} |-> Returns(NoDest)],
     getPageIndex |-> [r \in {1} |-> Returns(0)],
     completion |-> << <<1>>, <<1, 2>> >>]

ParseIdle ==
    /\ parseIn = EmptyDoc
    /\ parseOut = [done |-> FALSE, result |-> Returns(<<>>)]

FilterIdle == filtered = [done |-> FALSE, heap |-> <<>>, out |-> <<>>]

ViewIs(v) ==
    /\ heap = v.heap
    /\ states = v.states
    /\ outlineItems = v.outlineItems
    /\ itemStates = v.itemStates
    /\ searchQuery = v.searchQuery
    /\ allExpanded = v.allExpanded
    /\ searchInputEl = v.searchInputEl
    /\ toggleAllButton = v.toggleAllButton
    /\ outlineContainer = v.outlineContainer
    /\ contentEl = v.contentEl

\* The view after construction, in a workspace where a.pdf is open and active.
InitView ==
    /\ ViewIs(NewView)
    /\ lifecycle = "constructed"
    /\ NavIdle
    /\ PluginIdle
    /\ ParseIdle
    /\ FilterIdle
    /\ lastOp = Op("init", 0, "")

NextView ==
    \/ onOpen
    \/ onClose
    \/ \E trees \in ViewOutlines : ShowOutline(trees)
    \/ \E value \in SearchInputs : SearchInput(value)
    \/ ClickToggleAll
    \/ \E s \in 1..Len(states) : ClickCollapseIcon(s)
    \/ \E s \in 1..Len(states) : ClickTitle(s)

SpecView == InitView /\ [][NextView]_vars

\* ---------------------------------------------------- navigation: actions

\* What a PDF view class may offer: the three methods, pdfViewer (absent, without
\* or with currentPageNumber), and a number input in its container.
PdfViews ==
    [goToPage : BOOLEAN, jumpToPage : BOOLEAN, navigateToPage : BOOLEAN,
     pdfViewer : {"none", "withoutPageNumber", "withPageNumber"},
     pageInput : BOOLEAN]

LeafSeqs == UNION {[1..n -> [file : PdfFiles]] : n \in 0..MaxLeaves}

\* openLinkText(activeFile.path, '', true) resolves: the host has opened the
\* file in a new leaf, and the 300 ms timer starts.
OpenLinkResolves ==
    /\ openTimers # <<>>
    /\ openTimers[1].phase = "opening"
    /\ pdfLeaves' = IF Len(pdfLeaves) < MaxLeaves
                    THEN Append(pdfLeaves, [file |-> openTimers[1].file])
                    ELSE pdfLeaves
    /\ openTimers' = [openTimers EXCEPT ![1].phase = "waiting"]
    /\ lastOp' = Op("openLinkText", 0, openTimers[1].file)
    /\ UNCHANGED <<viewVars, activeFile, pdfView, navLog, pluginVars, parseVars, filtered>>

\* The timer fires: navigateToPageInLeaf(page, activeFile) without a leaf.
TimerFires ==
    /\ openTimers # <<>>
    /\ openTimers[1].phase = "waiting"
    /\ navLog' = navigateToPageInLeaf(NoNav, openTimers[1].page, openTimers[1].file, 0)
    /\ openTimers' = Tail(openTimers)
    /\ lastOp' = Op("timer", 0, openTimers[1].file)
    /\ UNCHANGED <<viewVars, activeFile, pdfLeaves, pdfView, pluginVars, parseVars, filtered>>

\* The user closes a PDF tab.
HostClosesLeaf(i) ==
    /\ i \in 1..Len(pdfLeaves)
    /\ pdfLeaves' = [j \in 1..(Len(pdfLeaves) - 1) |->
                        IF j < i THEN pdfLeaves[j] ELSE pdfLeaves[j + 1]]
    /\ lastOp' = Op("closeLeaf", i, "")
    /\ UNCHANGED <<viewVars, activeFile, pdfView, openTimers, navLog, pluginVars,
                   parseVars, filtered>>

\* The view shows an outline; the workspace is any.
InitNav ==
    /\ ViewIs(displayParsed(NewView, OutlineWide))
    /\ lifecycle = "open"
    /\ activeFile \in {"none", "n.md", "a.pdf"}
    /\ pdfLeaves \in LeafSeqs
    /\ pdfView \in PdfViews
    /\ openTimers = <<>>
    /\ navLog = NoNav
    /\ PluginIdle
    /\ ParseIdle
    /\ FilterIdle
    /\ lastOp = Op("init", 0, "")

NextNav ==
    \/ \E s \in 1..Len(states) : ClickTitle(s)
    \/ OpenLinkResolves
    \/ TimerFires
    \/ \E i \in 1..MaxLeaves : HostClosesLeaf(i)

SpecNav == InitNav /\ [][NextNav]_vars

\* ------------------------------------------------ claims about navigation

Strategies == <<"goToPage", "jumpToPage", "navigateToPage", "currentPageNumber", "pageInput">>

Available(view, strategy) ==
    CASE strategy = "goToPage" -> view.goToPage
      [] strategy = "jumpToPage" -> view.jumpToPage
      [] strategy = "navigateToPage" -> view.navigateToPage
      [] strategy = "currentPageNumber" -> view.pdfViewer = "withPageNumber"
      [] strategy = "pageInput" -> view.pageInput

\* A call of navigateToPageInLeaf has just returned.
Navigated == lastOp.op = "timer" \/ (lastOp.op = "jumpToPage" /\ navLog.active # 0)

\* C5: a call of navigateToPageInLeaf applies at most one strategy, and the one
\* it applies is the first available in the order goToPage, jumpToPage,
\* navigateToPage, pdfViewer.currentPageNumber, number input.
C5_FirstAvailableStrategyOnly ==
    Navigated =>
        /\ Len(navLog.applied) <= 1
        /\ \A k \in 1..Len(navLog.applied) :
               \E i \in 1..Len(Strategies) :
                   /\ navLog.applied[k].strategy = Strategies[i]
                   /\ Available(pdfView, Strategies[i])
                   /\ \A j \in 1..(i - 1) : ~Available(pdfView, Strategies[j])

\* C5 witness: currentPageNumber was assigned although a number input was there
\* too, none of the three methods being offered.
C5_Witness ==
    /\ Navigated
    /\ Len(navLog.applied) = 1
    /\ navLog.applied[1].strategy = "currentPageNumber"
    /\ pdfView.pageInput

\* C6: a click on an entry while a PDF is the active file ends with a navigation
\* performed or with the warning logged.
C6_ClickNavigatesOrWarns ==
    (lastOp.op = "timer" \/ (lastOp.op = "jumpToPage" /\ navLog.active # 0)) =>
        (navLog.applied # <<>> \/ navLog.warned)

\* ------------------------------------------------------------ the plugin

\* The documents the vault's PDF files hold.
DocA ==
    [loads |-> TRUE, outlineIsNull |-> FALSE,
     outline |-> << Item(<<"a">>, NamedDest("x"), << Item(<<"B">>, ArrayDest(1), <<>>) >>) >>,
     getDestination |-> [n \in {"x"} |-> Returns(ArrayDest(2))],
     getPageIndex |-> [r \in {1, 2} |-> IF r = 1 THEN Returns(0) ELSE Returns(2)],
     completion |-> << <<1>>, <<1, 2>> >>]
DocB ==
    [loads |-> TRUE, outlineIsNull |-> FALSE,
     outline |-> << Item(<<>>, ArrayDest(1), <<>>), Item(<<"b">>, NoDest, <<>>) >>,
     getDestination |-> [n \in {"x"} |-> Returns(NoDest)],
     getPageIndex |-> [r \in {1, 2} |-> IF r = 1 THEN Throws(0) ELSE Returns(1)],
     completion |-> << <<1>>, <<2, 1>> >>]
DocOf(f) == IF f = "a.pdf" THEN DocA ELSE DocB

\* activateView(): without a leaf of the view's type, the host makes one; the
\* registered factory sets this.view to a new PDFOutlineView and the host opens
\* it (onOpen).  p is the plugin's part of the state: view, lifecycle, pluginView.
activateView(p) ==
    IF p.lifecycle = "open" THEN p
    ELSE [p EXCEPT !.view = displayOutline(NewView, <<>>),
                   !.lifecycle = "open",
                   !.pluginView = TRUE]

\* A faulty file-open handler, for comparison: the else branch is missing.
fileOpenNoClear(p, file) ==
    IF file # "none" /\ IsPdf(file)
    THEN [p |-> IF ~p.pluginView THEN activateView(p) ELSE p, parsing |-> file]
    ELSE [p |-> p, parsing |-> "none"]

\* The 'file-open' handler up to its await of parsePDFOutline: the plugin's part
\* of the state, and the file whose parse it started ("none": no parse).
fileOpen(p, file) ==
    IF file # "none" /\ IsPdf(file)
    THEN [p |-> IF ~p.pluginView THEN activateView(p) ELSE p, parsing |-> file]
    ELSE [p |-> IF p.pluginView
                THEN [p EXCEPT !.view = displayParsed(p.view, <<>>)]
                ELSE p,
          parsing |-> "none"]

\* A faulty updateOutlineForFile, for comparison: no try/catch.
updateNoCatch(p, result) ==
    IF result.throws THEN [p |-> p, escaped |-> TRUE]
    ELSE [p |-> IF p.pluginView
                THEN [p EXCEPT !.view = displayParsed(p.view, result.value)]
                ELSE p,
          escaped |-> FALSE]

\* updateOutlineForFile(file) from the return of parsePDFOutline on: the
\* plugin's part of the state, and whether an error leaves the handler.
updateOutlineForFile(p, result) ==
    IF ~result.throws
    THEN [p |-> IF p.pluginView
                THEN [p EXCEPT !.view = displayParsed(p.view, result.value)]
                ELSE p,
          escaped |-> FALSE]
    ELSE [p |-> IF p.pluginView
                THEN [p EXCEPT !.view = displayParsed(p.view, <<>>)]
                ELSE p,
          escaped |-> FALSE]

Plugin == [view |-> View, lifecycle |-> lifecycle, pluginView |-> pluginView]

SetPlugin(p) ==
    /\ SetView(p.view)
    /\ lifecycle' = p.lifecycle
    /\ pluginView' = p.pluginView

\* onLayoutReady(() => this.activateView())
LayoutReady ==
    /\ ~pluginView
    /\ SetPlugin(activateView(Plugin))
    /\ lastOp' = Op("layoutReady", 0, "")
    /\ UNCHANGED <<navVars, pending, lastOpened, parseFailed, unhandled, parseVars, filtered>>

\* The host reports 'file-open' with a file, or with null ("none").  The check
\* of the active file on load makes the same call for a PDF.
FileOpen(file) ==
    /\ LET r == fileOpen(Plugin, file)
       IN /\ SetPlugin(r.p)
          /\ IF r.parsing # "none"
             THEN /\ pending[r.parsing] < MaxPending
                  /\ pending' = [pending EXCEPT ![r.parsing] = @ + 1]
             ELSE pending' = pending
    /\ lastOpened' = file
    /\ lastOp' = Op("fileOpen", 0, file)
    /\ UNCHANGED <<navVars, parseFailed, unhandled, parseVars, filtered>>

\* A pending parsePDFOutline(file) returns or throws (loads = FALSE), and the
\* handler that awaited it goes on.
ParseDone(file, loads) ==
    /\ pending[file] > 0
    /\ LET result == parsePDFOutline([DocOf(file) EXCEPT !.loads = loads])
           r == updateOutlineForFile(Plugin, result)
       IN /\ SetPlugin(r.p)
          /\ parseFailed' = (parseFailed \/ result.throws)
          /\ unhandled' = (unhandled \/ r.escaped)
          /\ lastOp' = Op("parseDone", IF result.throws THEN 1 ELSE 0, file)
    /\ pending' = [pending EXCEPT ![file] = @ - 1]
    /\ UNCHANGED <<navVars, lastOpened, parseVars, filtered>>

InitPlugin ==
    /\ ViewIs(NewView)
    /\ lifecycle = "constructed"
    /\ NavIdle
    /\ pluginView = FALSE
    /\ pending = [f \in PdfFiles |-> 0]
    /\ lastOpened = "none"
    /\ parseFailed = FALSE
    /\ unhandled = FALSE
    /\ ParseIdle
    /\ FilterIdle
    /\ lastOp = Op("init", 0, "")

NextPlugin ==
    \/ LayoutReady
    \/ \E file \in Files \cup {"none"} : FileOpen(file)
    \/ \E file \in PdfFiles, loads \in BOOLEAN : ParseDone(file, loads)

SpecPlugin == InitPlugin /\ [][NextPlugin]_vars

\* ---------------------------------------------- claims about the plugin

\* The outline the view shows, as a value.
Shown == Unload(heap, outlineItems)

\* The view shows the empty outline.
ShowsEmpty == outlineItems = <<>> /\ contentEl = <<"pdf-outline-empty">>

\* The outline of a file: what its parse returns, nothing for a file that is
\* no PDF.
OutlineOf(file) ==
    IF file # "none" /\ IsPdf(file) THEN parsePDFOutline(DocOf(file)).value ELSE <<>>

\* C2: once every pending parsePDFOutline call has completed, the view shows the
\* outline of the most recently opened file (the empty outline if that file is
\* no PDF), in whatever order the parses of earlier files completed.
C2_ShowsLatestFile ==
    (pluginView /\ (\A f \in PdfFiles : pending[f] = 0) /\ ~parseFailed) =>
        Shown = OutlineOf(lastOpened)

\* C7: when parsePDFOutline fails, the error does not leave the file-open
\* handler, and the view, when there is one, shows the empty outline and not
\* the outline it showed before.
C7_ParseFailureShowsEmpty ==
    /\ ~unhandled
    /\ (lastOp.op = "parseDone" /\ lastOp.arg = 1 /\ pluginView) => ShowsEmpty

\* C7 witness: the parse of the latest file, b.pdf, has just failed and the view
\* shows the empty outline.
C7_Witness ==
    /\ lastOp.op = "parseDone"
    /\ lastOp.arg = 1
    /\ lastOp.file = "b.pdf"
    /\ pluginView
    /\ ShowsEmpty
    /\ pending["a.pdf"] = 0
    /\ lastOpened = "b.pdf"

\* C8: a file-open event with a file that is no PDF, or with no file, sets the
\* view (when there is one) to the empty outline at once; with a PDF it starts
\* parsePDFOutline for exactly that file, and the result of that parse is what
\* displayOutline gets.
C8_FileOpenDispatch ==
    [][/\ (lastOp'.op = "fileOpen" /\ ~(lastOp'.file # "none" /\ IsPdf(lastOp'.file))) =>
              /\ pluginView => ShowsEmpty'
              /\ pending' = pending
       /\ (lastOp'.op = "fileOpen" /\ lastOp'.file # "none" /\ IsPdf(lastOp'.file)) =>
              /\ pending' = [pending EXCEPT ![lastOp'.file] = @ + 1]
              /\ pluginView => (Shown' = Shown)
       /\ (lastOp'.op = "parseDone" /\ lastOp'.arg = 0) =>
              /\ pending' = [pending EXCEPT ![lastOp'.file] = @ - 1]
              /\ pluginView'
              /\ Shown' = OutlineOf(lastOp'.file)]_vars

\* C8 witness: a note was opened while the view showed a PDF's outline, and the
\* view went empty while that PDF's next parse was still pending.
C8_Witness ==
    /\ lastOp.op = "fileOpen"
    /\ lastOp.file = "n.md"
    /\ pluginView
    /\ ShowsEmpty
    /\ pending["a.pdf"] = 1

\* --------------------------------------------------- the parser on its own

ParseDests == {NoDest, NamedDest("x"), ArrayDest(1), ArrayDest(2), ObjectDest}

\* The first item of a document's outline: without title, or with one.
FirstItems(d, its) ==
    {ItemWithoutTitle(d, its)} \cup {Item(t, d, its) : t \in {<<>>, <<"A">>}}

\* Documents: what the library reports for them, and the order in which
\* conversions started together settle.
ParseDocs ==
    {[loads |-> l, outlineIsNull |-> FALSE,
      outline |-> << first, Item(<<"a">>, d3, <<>>) >>,
      getDestination |-> [n \in {"x"} |-> gd],
      getPageIndex |-> [r \in {1, 2} |-> IF r = 1 THEN g1 ELSE g2],
      completion |-> << <<1>>, c2 >>] :
        l \in BOOLEAN,
        first \in UNION {FirstItems(d1, << Item(<<"b">>, d2, <<>>) >>) :
                             d1 \in ParseDests, d2 \in ParseDests},
        c2 \in {<<1, 2>>, <<2, 1>>},
        d3 \in ParseDests,
        gd \in {Throws(NoDest), Returns(NoDest), Returns(ArrayDest(1)), Returns(ArrayDest(2))},
        g1 \in {Throws(0), Returns(0), Returns(4)},
        g2 \in {Throws(0), Returns(2)}}
    \cup {[EmptyDoc EXCEPT !.outlineIsNull = n] : n \in BOOLEAN}

InitParse ==
    /\ ViewIs(NewView)
    /\ lifecycle = "constructed"
    /\ NavIdle
    /\ PluginIdle
    /\ parseIn \in ParseDocs
    /\ parseOut = [done |-> FALSE, result |-> Returns(<<>>)]
    /\ FilterIdle
    /\ lastOp = Op("init", 0, "")

\* await parsePDFOutline(file, this.app)
RunParse ==
    /\ ~parseOut.done
    /\ parseOut' = [done |-> TRUE, result |-> parsePDFOutline(parseIn)]
    /\ lastOp' = Op("parsePDFOutline", 0, "")
    /\ UNCHANGED <<viewVars, navVars, pluginVars, parseIn, filtered>>

NextParse == RunParse

SpecParse == InitParse /\ [][NextParse]_vars

\* The page the rule of C4 gives an item.
RulePage(doc, item) ==
    LET named    == item.dest.kind = "name"
        looked   == IF named THEN doc.getDestination[item.dest.name] ELSE Returns(item.dest)
        isArray  == ~looked.throws /\ looked.value.kind = "array"
        index    == doc.getPageIndex[looked.value.ref]
    IN IF item.dest.kind = "none" THEN 1
       ELSE IF looked.throws THEN 1
       ELSE IF ~isArray THEN 1
       ELSE IF index.throws THEN 1
       ELSE index.value + 1

RECURSIVE RulePages(_, _)
RulePages(doc, items) ==
    [i \in 1..Len(items) |->
        [page |-> RulePage(doc, items[i]), children |-> RulePages(doc, items[i].items)]]

RECURSIVE PagesOf(_)
PagesOf(trees) ==
    [i \in 1..Len(trees) |->
        [page |-> trees[i].page, children |-> PagesOf(trees[i].children)]]

\* C4: resolving destinations never makes the conversion fail: a node whose
\* resolution raises an error, that has no destination, or whose destination
\* does not resolve to an array gets page 1, any other node the resolved page
\* index plus 1, and the whole tree is converted.
C4_ResolutionNeverFailsConversion ==
    (parseOut.done /\ parseIn.loads) =>
        /\ ~parseOut.result.throws
        /\ PagesOf(parseOut.result.value) = RulePages(parseIn, parseIn.outline)

\* C4 witness: a conversion in which getDestination threw for one node,
\* getPageIndex threw for another, and a third node got a page beyond 1.
C4_Witness ==
    /\ parseOut.done
    /\ parseIn.loads
    /\ Len(parseIn.outline) = 2
    /\ parseIn.outline[1].dest.kind = "name"
    /\ parseIn.getDestination["x"].throws
    /\ parseIn.outline[1].items[1].dest = ArrayDest(1)
    /\ parseIn.getPageIndex[1].throws
    /\ parseIn.outline[2].dest = ArrayDest(2)
    /\ PagesOf(parseOut.result.value) =
           << [page |-> 1, children |-> << [page |-> 1, children |-> <<>>] >>],
              [page |-> 3, children |-> <<>>] >>

\* -------------------------------------------------- filterOutline on its own

FilterTitles == {<<"a">>, <<"A", "b">>, <<"b", " ", "A">>}
FilterTrees ==
    {<< Node(t1, 1, << Node(t2, 1, << Leaf(t3, 1) >>), Leaf(t4, 1) >>), Leaf(t5, 1) >> :
        t1 \in FilterTitles, t2 \in FilterTitles, t3 \in FilterTitles,
        t4 \in FilterTitles, t5 \in FilterTitles}
FilterQueries ==
    {<<>>, <<" ">>, <<"a">>, <<"B">>, <<"a", "B">>, <<" ", "a">>, <<"b", " ">>}

\* A view holding one of the outlines with one of the queries as searchQuery.
InitFilter ==
    /\ \E trees \in FilterTrees, q \in FilterQueries :
           ViewIs([NewView EXCEPT !.heap = Load(trees).heap,
                                  !.outlineItems = Load(trees).ids,
                                  !.searchQuery = q])
    /\ lifecycle = "constructed"
    /\ NavIdle
    /\ PluginIdle
    /\ ParseIdle
    /\ FilterIdle
    /\ lastOp = Op("init", 0, "")

\* this.filterOutline(this.outlineItems)
RunFilter ==
    /\ ~filtered.done
    /\ LET fc == filterOutline(View, outlineItems)
       IN filtered' = [done |-> TRUE, heap |-> fc.v.heap, out |-> fc.out]
    /\ lastOp' = Op("filterOutline", 0, "")
    /\ UNCHANGED <<viewVars, navVars, pluginVars, parseVars>>

NextFilter == RunFilter

SpecFilter == InitFilter /\ [][NextFilter]_vars

\* Same letter, whatever the case.
SameLetter(c, d) == c = d \/ {c, d} = {"a", "A"} \/ {c, d} = {"b", "B"}

\* q occurs in title as a case-insensitive substring.
ContainsIgnoringCase(title, q) ==
    \E i \in 0..(Len(title) - Len(q)) :
        \A j \in 1..Len(q) : SameLetter(title[i + j], q[j])

\* The keep rule: the title contains the query or a descendant's title does.
RECURSIVE Keep(_, _, _)
Keep(h, id, q) ==
    \/ ContainsIgnoringCase(h[id].title, q)
    \/ \E i \in 1..Len(h[id].children) : Keep(h, h[id].children[i], q)

\* The kept objects below ids, in their order and under their parents.
RECURSIVE KeptTree(_, _, _)
KeptTree(h, ids, q) ==
    LET kept == SelectSeq(ids, LAMBDA id : Keep(h, id, q))
    IN [i \in 1..Len(kept) |->
           [orig |-> kept[i], title |-> h[kept[i]].title, page |-> h[kept[i]].page,
            children |-> KeptTree(h, h[kept[i]].children, q)]]

\* The objects below ids with the stored object each stems from.
RECURSIVE OrigTree(_, _)
OrigTree(h, ids) ==
    [i \in 1..Len(ids) |->
        [orig |-> h[ids[i]].orig, title |-> h[ids[i]].title, page |-> h[ids[i]].page,
         children |-> OrigTree(h, h[ids[i]].children)]]

\* C1: for a query that is not blank, filterOutline keeps a node if and only if
\* its title contains the query as a case-insensitive substring or a
\* descendant's title does; the kept nodes come in their original order, under
\* their original parents.
C1_FilterKeepsMatchesAndAncestors ==
    (filtered.done /\ trim(searchQuery) # <<>>) =>
        OrigTree(filtered.heap, filtered.out) = KeptTree(heap, outlineItems, searchQuery)

\* C1 witness: a filter kept a node for a descendant's sake only, and dropped
\* another node.
C1_Witness ==
    /\ filtered.done
    /\ trim(searchQuery) # <<>>
    /\ \E i \in 1..Len(filtered.out) :
           /\ ~ContainsIgnoringCase(filtered.heap[filtered.out[i]].title, searchQuery)
           /\ Len(filtered.heap[filtered.out[i]].children) = 1
    /\ Len(filtered.out) < Len(outlineItems)

\* ------------------------------------------------- claims about the view

\* Every rendered item that has children is collapsed exactly when allExpanded
\* is false.
AllFollowAllExpanded(v) ==
    \A s \in Rendered(v) :
        v.states[s].hasContainer => (v.states[s].isCollapsed <=> ~v.allExpanded)

\* C3: after toggleAll, every rendered item that has children is collapsed if
\* allExpanded became false and expanded if it became true, whatever the depth
\* of the outline and whatever was toggled before.
C3_ToggleAllReachesEveryItem ==
    lastOp.op = "toggleAll" => AllFollowAllExpanded(View)

\* C9: right after a search input event, and right after displayOutline of a
\* non-empty outline, each rendered item that has children is collapsed if and
\* only if allExpanded is false.
C9_RenderFollowsAllExpanded ==
    lastOp.op \in {"input", "displayOutline", "onOpen"} => AllFollowAllExpanded(View)

\* C9 witness: a search with a non-blank query has just rendered a parent, in
\* the collapsed mode.
C9_Witness ==
    /\ lastOp.op = "input"
    /\ trim(searchQuery) # <<>>
    /\ ~allExpanded
    /\ \E s \in Rendered(View) : states[s].hasContainer /\ states[s].isCollapsed

\* C10: a click on the collapse icon of a rendered item with children flips
\* that item's collapsed state and leaves alone the collapsed state of every
\* rendered item outside its subtree, the search query, allExpanded and the PDF
\* view (no navigation); toggleItem on an item without children changes nothing.
C10_ToggleItemFrame ==
    [][/\ \A t \in Rendered(View) :
              ~states[t].hasContainer => toggleItem(View, states[t].item) = View
       /\ lastOp'.op = "toggleItem" =>
              LET s == lastOp'.arg
              IN /\ states'[s].isCollapsed = ~states[s].isCollapsed
                 /\ \A t \in Rendered(View) \ Below(View, {s}) :
                        /\ t \in Rendered(View')
                        /\ states'[t].isCollapsed = states[t].isCollapsed
                 /\ searchQuery' = searchQuery
                 /\ allExpanded' = allExpanded
                 /\ navLog' = navLog
                 /\ openTimers' = openTimers]_vars

\* C10 witness: under a non-blank search an item was just expanded again by its
\* icon while another rendered parent stays collapsed.
C10_Witness ==
    /\ lastOp.op = "toggleItem"
    /\ trim(searchQuery) # <<>>
    /\ ~states[lastOp.arg].isCollapsed
    /\ states[lastOp.arg].kids # <<>>
    /\ \E t \in Rendered(View) \ Below(View, {lastOp.arg}) :
           states[t].hasContainer /\ states[t].isCollapsed

\* The filter leaves nothing of the stored outline.
FilteredIsEmpty(v) == filterOutline(v, v.outlineItems).out = <<>>

\* C11: displayOutline of an empty outline leaves in the view the one element
\* with the 'No outline available' message: no header, no search input, no
\* outline container, and itemStates empty.  When a non-empty outline has just
\* been rendered and the filter kept nothing of it, the view holds the header
\* with the search input and the outline container, the container holds the 'No
\* matching items found.' element and no item, and itemStates is empty.
C11_EmptyStates ==
    /\ (lastOp.op \in {"displayOutline", "onOpen"} /\ outlineItems = <<>>) =>
           /\ contentEl = <<"pdf-outline-empty">>
           /\ Rendered(View) = {}
           /\ itemStates = <<>>
    /\ (lastOp.op \in {"displayOutline", "onOpen", "input"} /\ outlineItems # <<>>
          /\ FilteredIsEmpty(View)) =>
           /\ contentEl = <<"pdf-outline-header", "pdf-outline-content">>
           /\ ~searchInputEl.isNull
           /\ ~outlineContainer.isNull
           /\ outlineContainer.noResults
           /\ outlineContainer.kids = <<>>
           /\ itemStates = <<>>

\* C11 witness: an outline came in while the search input held a query that
\* matches none of its titles; the header is there and nothing is listed.
C11_Witness ==
    /\ lastOp.op = "displayOutline"
    /\ outlineItems # <<>>
    /\ trim(searchQuery) # <<>>
    /\ FilteredIsEmpty(View)
    /\ HeaderShown(View)
    /\ outlineContainer.noResults
    /\ itemStates = <<>>

\* C12: whenever the header is in the view, the toggle-all button reads 'Alles
\* einklappen' if allExpanded is true and 'Alles ausklappen' if it is false.
C12_ToggleButtonTextFollowsAllExpanded ==
    HeaderShown(View) =>
        /\ ~toggleAllButton.isNull
        /\ toggleAllButton.textContent =
               (IF allExpanded THEN "Alles einklappen" ELSE "Alles ausklappen")

\* C12 witness: displayOutline has made a new header while allExpanded was
\* false, and the new button reads 'Alles ausklappen'.
C12_Witness ==
    /\ lastOp.op = "displayOutline"
    /\ HeaderShown(View)
    /\ ~allExpanded
    /\ toggleAllButton.textContent = "Alles ausklappen"

\* The nodes (PDFOutlineItem objects) that have a tree-item element in the
\* outline container.
RenderedNodes(v) == {v.states[s].item : s \in Rendered(v)}

\* The nodes itemStates has an entry for.
TrackedNodes(v) == {v.itemStates[i].key : i \in 1..Len(v.itemStates)}

\* C13: while the view is in the workspace, itemStates holds one entry for each
\* node rendered in the outline container, each node is rendered once, and
\* itemStates holds no entry for a node that is not rendered.
C13_ItemStatesAreTheRenderedNodes ==
    lifecycle # "closed" =>
        /\ TrackedNodes(View) = RenderedNodes(View)
        /\ Cardinality(Rendered(View)) = Len(itemStates)

\* The stored-outline objects the nodes of a list of elements stem from.
OrigsOf(v, kids) == [i \in 1..Len(kids) |-> v.heap[v.states[kids[i]].item].orig]

\* The stored-outline objects among ids that the keep rule keeps for query q.
KeptOf(v, ids, q) == SelectSeq(ids, LAMBDA id : Keep(v.heap, id, q))

\* C14 as stated: every node rendered in the outline container satisfies the
\* keep rule for the current search query: its title contains the query,
\* whatever the case, or the title of one of its descendants in the stored
\* outline does.
C14_RenderedSatisfyKeepRule ==
    \A s \in Rendered(View) : Keep(heap, heap[states[s].item].orig, searchQuery)

\* C14 amended: when the search query is not blank, every rendered node
\* satisfies the keep rule for it, the outline container lists the kept
\* top-level nodes and every expanded item, re-expanded ones included, lists
\* its kept children and no other; when the query is blank (empty or white
\* space only) nothing is filtered and an expanded item lists all its children.
C14_RenderedSatisfyKeepRuleUnlessBlank ==
    LET q == IF trim(searchQuery) = <<>> THEN <<>> ELSE searchQuery
    IN /\ \A s \in Rendered(View) :
              /\ Keep(heap, heap[states[s].item].orig, q)
              /\ (states[s].hasContainer /\ ~states[s].isCollapsed) =>
                     OrigsOf(View, states[s].kids) =
                         KeptOf(View, heap[heap[states[s].item].orig].children, q)
       /\ ContentShown(View) =>
              OrigsOf(View, outlineContainer.kids) = KeptOf(View, outlineItems, q)

\* C14 witness: under a search an item was collapsed and has just been expanded
\* again by its icon; it lists one child, the stored outline has two.
C14_Witness ==
    /\ lastOp.op = "toggleItem"
    /\ trim(searchQuery) # <<>>
    /\ lastOp.arg \in Rendered(View)
    /\ ~states[lastOp.arg].isCollapsed
    /\ Len(states[lastOp.arg].kids) = 1
    /\ Len(heap[heap[states[lastOp.arg].item].orig].children) = 2

\* C15: when an expanded item is collapsed by its icon and then expanded again
\* by its icon, it lists what it listed before the collapse: the same
\* descendants, each collapsed if it was collapsed and expanded if it was
\* expanded.
C15_CollapseThenExpandRestores ==
    [][(/\ lastOp.op = "toggleItem"
        /\ lastOp'.op = "toggleItem"
        /\ lastOp'.arg = lastOp.arg
        /\ states[lastOp.arg].isCollapsed
        /\ ~states'[lastOp.arg].isCollapsed) =>
           Visible(View', states'[lastOp.arg].kids) = lastOp.before]_vars

\* The titles the rule of C16 gives the nodes of a library outline.
RECURSIVE RuleTitles(_)
RuleTitles(items) ==
    [i \in 1..Len(items) |->
        [title |-> IF "title" \notin DOMAIN items[i] THEN Untitled
                   ELSE IF items[i].title = <<>> THEN Untitled
                   ELSE items[i].title,
         children |-> RuleTitles(items[i].items)]]

RECURSIVE TitlesOf(_)
TitlesOf(trees) ==
    [i \in 1..Len(trees) |->
        [title |-> trees[i].title, children |-> TitlesOf(trees[i].children)]]

\* C16: parsePDFOutline returns one node for each node of the library's
\* outline, nested and ordered as there, in whatever order the conversions of
\* siblings settle; a node has the title of its source, 'Untitled' if the source
\* has none or an empty one; a null or empty outline gives the empty list.
C16_ConversionPreservesTree ==
    (parseOut.done /\ parseIn.loads) =>
        /\ ~parseOut.result.throws
        /\ TitlesOf(parseOut.result.value) =
               (IF parseIn.outlineIsNull THEN <<>> ELSE RuleTitles(parseIn.outline))

\* C16 witness: the second top-level item settled before the first, which has
\* no title and has a child; the result lists them in the library's order.
C16_Witness ==
    /\ parseOut.done
    /\ parseIn.loads
    /\ ~parseIn.outlineIsNull
    /\ Len(parseIn.outline) = 2
    /\ parseIn.completion[2] = <<2, 1>>
    /\ "title" \notin DOMAIN parseIn.outline[1]
    /\ TitlesOf(parseOut.result.value) =
           << [title |-> Untitled,
               children |-> << [title |-> <<"b">>, children |-> <<>>] >>],
              [title |-> <<"a">>, children |-> <<>>] >>

====
